---- MODULE Spec2Model ----
(***************************************************************************)
(* Tile pyramid generation (tiatoolbox/tools/pyramid.py).                  *)
(*                                                                         *)
(* One generator object (TilePyramidGenerator, DeepZoomGenerator or        *)
(* ZoomifyGenerator) over a slide of width x height pixels.  The geometry  *)
(* methods are operators over the generator's fields; the public methods   *)
(* are actions that record what the call returned or raised in `ret`;      *)
(* dump and __iter__ are loops whose position is (level, x, y).            *)
(*                                                                         *)
(* Numbers the code computes in floating point (2 ** negative, np.divide,  *)
(* np.log2, np.ceil, np.round) are modelled exactly as rationals: a scale  *)
(* is the pair <<numerator, denominator>>.                                 *)
(***************************************************************************)
EXTENDS Integers, Sequences, FiniteSets, TLC

\* ---------------------------------------------------------------- bounds
MaxDim == 4
MaxTile == 3
MaxOverlap == 1
MaxDownsample == 3
MaxCoord == 3
BigDim == 16

\* Tiles per Zoomify tile group (tile_index // 256).
TileGroupSize == 256

Kinds == {"generic", "deepzoom", "zoomify"}

\* dump's container argument: None (a directory), "zip", "tar", anything else.
Containers == {"None", "zip", "tar", "other"}

\* dump's compression argument: None, the four documented names, anything else.
Compressions == {"None", "deflate", "gzip", "bz2", "lzma", "other"}

\* compression2enum's keys in dump.
ZipCompressions == {"None", "deflate", "bz2", "lzma"}

\* compression2mode's keys in dump.
TarCompressions == {"None", "gzip", "bz2", "lzma"}

VARIABLES
    kind,         \* which class the generator is
    width,        \* wsi.info.slide_dimensions[0]
    height,       \* wsi.info.slide_dimensions[1]
    tile_size,    \* self.tile_size
    overlap,      \* self.overlap
    downsample,   \* self.downsample
    pc,           \* "ready", or inside the loop of "dump" or of "iter"
    container,    \* the running (or last) dump's container argument
    compression,  \* the running (or last) dump's compression argument
    dirCreated,   \* the running (or last) dump created the directory `path`
    archiveOpen,  \* the running (or last) dump holds an open archive
    level,        \* the caller's level argument; in a loop, the last tile's level
    x,            \* the caller's x argument; in a loop, the last tile's x
    y,            \* the caller's y argument; in a loop, the last tile's y
    k,            \* get_tile calls made by the running (or last) enumeration
    ret           \* what the last call (or loop step) returned or raised

vars == <<kind, width, height, tile_size, overlap, downsample, pc, container,
          compression, dirCreated, archiveOpen, level, x, y, k, ret>>

generator == <<kind, width, height, tile_size, overlap, downsample>>

\* ------------------------------------------------------------ arithmetic
Max(a, b) == IF a >= b THEN a ELSE b

\* np.ceil(a / b) for b > 0 (a may be negative).
CeilDiv(a, b) == -((-a) \div b)

\* The least m >= 0 with b * 2^m >= a  (a > b > 0).
RECURSIVE Log2Up(_, _)
Log2Up(a, b) == IF a <= b THEN 0 ELSE 1 + Log2Up(a, 2 * b)

\* The greatest m >= 0 with a * 2^m <= b  (0 < a <= b).
RECURSIVE Log2Down(_, _)
Log2Down(a, b) == IF 2 * a > b THEN 0 ELSE 1 + Log2Down(2 * a, b)

\* np.ceil(np.log2(a / b)) for a, b > 0: negative when a < b.
CeilLog2Ratio(a, b) == IF a > b THEN Log2Up(a, b) ELSE -Log2Down(a, b)

\* np.round(n / d) for n >= 0, d > 0: halves go to the even neighbour.
\* (The code rounds the float (w / max) * tile_dim, which can fall one ulp
\* below a half, e.g. 15 / 22 * 11; no slide within the bounds does.)
RoundHalfEven(n, d) ==
    LET q == n \div d
        r == n % d
    IN  IF 2 * r < d THEN q
        ELSE IF 2 * r > d THEN q + 1
        ELSE IF q % 2 = 0 THEN q ELSE q + 1

\* ------------------------------------------------------ pyramid geometry
OutputTileSize == tile_size + 2 * overlap

SubTileLevelCount ==
    IF kind = "deepzoom" THEN CeilLog2Ratio(OutputTileSize, 1) ELSE 0

\* TilePyramidGenerator.level_count (sub_tile_level_count is the subclass's).
BaseLevelCount ==
    Max(CeilLog2Ratio(width, tile_size), CeilLog2Ratio(height, tile_size))
        + 1 + SubTileLevelCount

LevelCount == IF kind = "deepzoom" THEN BaseLevelCount - 1 ELSE BaseLevelCount

\* 2 ** (level_count - level - 1) as <<numerator, denominator>>.
LevelDownsample(lv) ==
    LET e == LevelCount - lv - 1
    IN  IF e >= 0 THEN <<2 ^ e, 1>> ELSE <<1, 2 ^ (-e)>>

LevelDimensions(lv) ==
    LET s == LevelDownsample(lv)
    IN  <<CeilDiv(width * s[2], s[1]), CeilDiv(height * s[2], s[1])>>

TileGridSizeRaises(lv) == lv < 0 \/ lv >= LevelCount

\* tile_grid_size with np.floor written for np.ceil.
TileGridSizeFloor(lv) ==
    LET d == LevelDimensions(lv)
    IN  <<d[1] \div tile_size, d[2] \div tile_size>>

TileGridSize(lv) ==
    LET d == LevelDimensions(lv)
    IN  <<CeilDiv(d[1], tile_size), CeilDiv(d[2], tile_size)>>

\* get_tile_thumb's out_dims: round(slide_dims / slide_dims.max() * tile_dim).
ThumbDims ==
    LET tile_dim == tile_size + overlap
        m == Max(width, height)
    IN  <<RoundHalfEven(width * tile_dim, m), RoundHalfEven(height * tile_dim, m)>>

\* ------------------------------------------------------------- get_tile
\* baseline_x and baseline_y times the scale's denominator:
\* (i * tile_size * scale) - (overlap * scale).
BaselineCoord(lv, i) ==
    LET s == LevelDownsample(lv)
    IN  (i * tile_size * s[1]) - (overlap * s[1])

\* all(slide_dimensions < [baseline_x, baseline_y])
OutsideSlide(lv, i, j) ==
    LET s == LevelDownsample(lv)
    IN  /\ width * s[2] < BaselineCoord(lv, i)
        /\ height * s[2] < BaselineCoord(lv, j)

\* How get_tile(level, x, y) ends: "IndexError", "thumb" (a sub-tile level:
\* the resized thumbnail) or "tile" (the region read by wsi.read_rect).
GetTileOutcome(lv, i, j) ==
    IF lv < 0 THEN "IndexError"
    ELSE IF lv > LevelCount THEN "IndexError"
    ELSE IF lv < SubTileLevelCount THEN "thumb"
    ELSE IF OutsideSlide(lv, i, j) THEN "IndexError"
    ELSE "tile"

\* The reader method a get_tile call ending in `outcome` has called.
ReaderCalled(outcome) ==
    CASE outcome = "tile" -> "read_rect"
      [] outcome = "thumb" -> "read_bounds"
      [] OTHER -> "none"

\* The image get_tile returns: [2 ** level] * 2 bounds the thumbnail of a
\* sub-tile level, [output_tile_size] * 2 is the size asked of read_rect.
GetTileSize(lv, outcome) ==
    CASE outcome = "tile" -> <<OutputTileSize, OutputTileSize>>
      [] outcome = "thumb" -> <<2 ^ lv, 2 ^ lv>>
      [] OTHER -> <<0, 0>>

\* ------------------------------------------------------------- tile_path
RECURSIVE TileCumSum(_)
\* sum(np.prod(self.tile_grid_size(n)) for n in range(level))
TileCumSum(lv) ==
    IF lv <= 0 THEN 0
    ELSE TileCumSum(lv - 1) + TileGridSize(lv - 1)[1] * TileGridSize(lv - 1)[2]

\* np.ravel_multi_index((y, x), grid[::-1])
IndexInLevel(lv, i, j) == j * TileGridSize(lv)[1] + i

\* tile_group's check with the pair written [y, x].
TileGroupRaisesSwapped(lv, i, j) ==
    \/ TileGridSizeRaises(lv)
    \/ TileGridSize(lv)[1] <= j
    \/ TileGridSize(lv)[2] <= i

\* any(grid_size <= [x, y])
TileGroupRaises(lv, i, j) ==
    \/ TileGridSizeRaises(lv)
    \/ TileGridSize(lv)[1] <= i
    \/ TileGridSize(lv)[2] <= j

TileGroup(lv, i, j) == (TileCumSum(lv) + IndexInLevel(lv, i, j)) \div TileGroupSize

\* How tile_path(level, x, y) ends for the grid positions dump passes to it.
TilePathOutcome(lv, i, j) ==
    CASE kind = "generic" -> "NotImplementedError"
      [] kind = "deepzoom" -> "ok"
      [] kind = "zoomify" -> IF TileGroupRaises(lv, i, j) THEN "IndexError" ELSE "ok"

\* The number in "TileGroup{g}"; DeepZoom paths have none.
PathGroup(lv, i, j) ==
    IF kind = "zoomify" /\ ~TileGroupRaises(lv, i, j) THEN TileGroup(lv, i, j) ELSE -1

\* ----------------------------------------------------------- enumeration
\* for level in range(self.level_count):
\*     for x, y in np.ndindex(self.tile_grid_size(level)):
\* np.ndindex steps its last index fastest, and the pair it yields is
\* bound to (x, y): y runs through the grid's second extent for each x.
NdIndexHasNext(grid, i, j) == j + 1 < grid[2] \/ i + 1 < grid[1]

NdIndexNext(grid, i, j) == IF j + 1 < grid[2] THEN <<i, j + 1>> ELSE <<i + 1, 0>>

\* Is there a tile after the one visited last (none visited yet when k = 0)?
HasNextTile ==
    IF k = 0 THEN LevelCount >= 1
    ELSE NdIndexHasNext(TileGridSize(level), x, y) \/ level + 1 < LevelCount

NextTile ==
    IF k = 0 THEN <<0, 0, 0>>
    ELSE IF NdIndexHasNext(TileGridSize(level), x, y)
         THEN <<level>> \o NdIndexNext(TileGridSize(level), x, y)
         ELSE <<level + 1, 0, 0>>

\* ------------------------------------------------------------------ state
\* What a call returned or raised: the method, how it ended, the pair it
\* returned, the reader method it called, the tile group of the path written.
Result(op, outcome, val, reader, group) ==
    [op |-> op, outcome |-> outcome, val |-> val, reader |-> reader, group |-> group]

TypeOK ==
    /\ kind \in Kinds
    /\ width \in Nat \ {0} /\ height \in Nat \ {0}
    /\ tile_size \in Nat \ {0} /\ overlap \in Nat /\ downsample \in Nat \ {0}
    /\ pc \in {"ready", "dump", "iter"}
    /\ container \in Containers /\ compression \in Compressions
    /\ dirCreated \in BOOLEAN /\ archiveOpen \in BOOLEAN
    /\ level \in Int /\ x \in Int /\ y \in Int /\ k \in Nat
    /\ ret.op \in {"init", "level_count", "level_downsample", "level_dimensions",
                   "tile_grid_size", "get_tile_thumb", "get_tile", "dump", "iter"}

\* __init__: any class, any slide, any parameters within the bounds.
NewGenerator ==
    /\ kind \in Kinds
    /\ width \in 1..MaxDim
    /\ height \in 1..MaxDim
    /\ tile_size \in 1..MaxTile
    /\ overlap \in {0, MaxOverlap}
    /\ downsample \in {2, MaxDownsample}

\* Nothing has been called yet.
Fresh ==
    /\ pc = "ready"
    /\ container = "None" /\ compression = "None"
    /\ dirCreated = FALSE /\ archiveOpen = FALSE
    /\ k = 0
    /\ ret = Result("init", "ok", <<0, 0>>, "none", -1)

\* The levels a caller may pass: the valid ones and some on either side.
CallLevels == -1..(Max(LevelCount, 0) + 1)

CallCoords == -1..MaxCoord

\* A generator and a caller about to enumerate its tiles.
Init ==
    /\ NewGenerator
    /\ level = 0 /\ x = 0 /\ y = 0
    /\ Fresh

\* A generator and a caller holding the level it asks the geometry about.
InitGeometry ==
    /\ NewGenerator
    /\ level \in CallLevels
    /\ x = 0 /\ y = 0
    /\ Fresh

\* A generator and a caller holding the arguments (level, x, y) of get_tile.
InitCalls ==
    /\ NewGenerator
    /\ level \in CallLevels
    /\ x \in CallCoords
    /\ y \in CallCoords
    /\ Fresh

\* A ZoomifyGenerator with its default overlap and downsample over a slide
\* large enough for more than one tile group.
InitZoomify ==
    /\ kind = "zoomify"
    /\ width \in (BigDim - 1)..BigDim
    /\ height \in (BigDim - 1)..BigDim
    /\ tile_size = 1
    /\ overlap = 0
    /\ downsample = 2
    /\ level = 0 /\ x = 0 /\ y = 0
    /\ Fresh

\* A method that only computes leaves everything but its result alone.
OnlyReturns ==
    UNCHANGED <<generator, pc, container, compression, dirCreated, archiveOpen,
                level, x, y, k>>

\* ------------------------------------------------------- the pure methods
CallLevelCount ==
    /\ pc = "ready"
    /\ ret' = Result("level_count", "ok", <<LevelCount, 1>>, "none", -1)
    /\ OnlyReturns

CallLevelDownsample ==
    /\ pc = "ready"
    /\ ret' = Result("level_downsample", "ok", LevelDownsample(level), "none", -1)
    /\ OnlyReturns

CallLevelDimensions ==
    /\ pc = "ready"
    /\ ret' = Result("level_dimensions", "ok", LevelDimensions(level), "none", -1)
    /\ OnlyReturns

CallTileGridSize ==
    /\ pc = "ready"
    /\ ret' = IF TileGridSizeRaises(level)
              THEN Result("tile_grid_size", "IndexError", <<0, 0>>, "none", -1)
              ELSE Result("tile_grid_size", "ok", TileGridSize(level), "none", -1)
    /\ OnlyReturns

CallGetTileThumb ==
    /\ pc = "ready"
    /\ ret' = Result("get_tile_thumb", "ok", ThumbDims, "read_bounds", -1)
    /\ OnlyReturns

CallGetTile ==
    /\ pc = "ready"
    /\ LET o == GetTileOutcome(level, x, y)
       IN  ret' = Result("get_tile", o, GetTileSize(level, o), ReaderCalled(o), -1)
    /\ OnlyReturns

\* ------------------------------------------------------------------ dump
\* What the code before dump's loop does with (container, compression);
\* fsOk: the file system lets path.mkdir / the archive's open succeed.
\* <<how it ends ("loop": the loop is entered), directory created, archive open>>
DumpSetup(c, comp, fsOk) ==
    CASE c = "zip" ->
           IF comp \notin ZipCompressions THEN <<"ValueError", FALSE, FALSE>>
           ELSE IF fsOk THEN <<"loop", FALSE, TRUE>>
           ELSE <<"OSError", FALSE, FALSE>>
      [] c = "tar" ->
           IF comp \notin TarCompressions THEN <<"ValueError", FALSE, FALSE>>
           ELSE IF fsOk THEN <<"loop", FALSE, TRUE>>
           ELSE <<"OSError", FALSE, FALSE>>
      [] c = "None" ->
           IF ~fsOk THEN <<"OSError", FALSE, FALSE>>
           ELSE IF comp # "None" THEN <<"ValueError", TRUE, FALSE>>
           ELSE <<"loop", TRUE, FALSE>>
      [] OTHER -> <<"ValueError", FALSE, FALSE>>

\* dump up to its loop: the arguments are checked and the target opened.
DumpBegin ==
    /\ pc = "ready"
    /\ \E c \in Containers, comp \in Compressions, fsOk \in BOOLEAN :
         LET s == DumpSetup(c, comp, fsOk)
         IN  /\ container' = c
             /\ compression' = comp
             /\ dirCreated' = s[2]
             /\ archiveOpen' = s[3]
             /\ pc' = IF s[1] = "loop" THEN "dump" ELSE "ready"
             /\ ret' = Result("dump", s[1], <<0, 0>>, "none", -1)
    /\ level' = 0 /\ x' = 0 /\ y' = 0 /\ k' = 0
    /\ UNCHANGED generator

\* One pass of dump's loop body: get_tile, tile_path, then the write.
DumpTile ==
    /\ pc = "dump"
    /\ HasNextTile
    /\ LET t == NextTile
           o == GetTileOutcome(t[1], t[2], t[3])
           p == TilePathOutcome(t[1], t[2], t[3])
       IN  /\ level' = t[1] /\ x' = t[2] /\ y' = t[3]
           /\ k' = k + 1
           /\ IF o = "IndexError"
              THEN /\ pc' = "ready"
                   /\ ret' = Result("dump", o, <<0, 0>>, "none", -1)
              ELSE IF p # "ok"
              THEN /\ pc' = "ready"
                   /\ ret' = Result("dump", p, <<0, 0>>, ReaderCalled(o), -1)
              ELSE /\ pc' = "dump"
                   /\ ret' = Result("dump", o, GetTileSize(t[1], o), ReaderCalled(o),
                                    PathGroup(t[1], t[2], t[3]))
    /\ UNCHANGED <<generator, container, compression, dirCreated, archiveOpen>>

\* The loop is exhausted: the archive, if any, is closed.
DumpEnd ==
    /\ pc = "dump"
    /\ ~HasNextTile
    /\ pc' = "ready"
    /\ archiveOpen' = FALSE
    /\ ret' = Result("dump", "ok", <<0, 0>>, "none", -1)
    /\ UNCHANGED <<generator, container, compression, dirCreated, level, x, y, k>>

\* -------------------------------------------------------------- __iter__
IterBegin ==
    /\ pc = "ready"
    /\ pc' = "iter"
    /\ container' = "None" /\ compression' = "None"
    /\ dirCreated' = FALSE /\ archiveOpen' = FALSE
    /\ level' = 0 /\ x' = 0 /\ y' = 0 /\ k' = 0
    /\ ret' = Result("iter", "loop", <<0, 0>>, "none", -1)
    /\ UNCHANGED generator

\* next() on the generator: the next tile is rendered and yielded.
IterNext ==
    /\ pc = "iter"
    /\ HasNextTile
    /\ LET t == NextTile
           o == GetTileOutcome(t[1], t[2], t[3])
       IN  /\ level' = t[1] /\ x' = t[2] /\ y' = t[3]
           /\ k' = k + 1
           /\ pc' = IF o = "IndexError" THEN "ready" ELSE "iter"
           /\ ret' = Result("iter", o, GetTileSize(t[1], o), ReaderCalled(o), -1)
    /\ UNCHANGED <<generator, container, compression, dirCreated, archiveOpen>>

\* next() past the last tile: StopIteration.
IterEnd ==
    /\ pc = "iter"
    /\ ~HasNextTile
    /\ pc' = "ready"
    /\ ret' = Result("iter", "ok", <<0, 0>>, "none", -1)
    /\ UNCHANGED <<generator, container, compression, dirCreated, archiveOpen,
                   level, x, y, k>>

\* ------------------------------------------------------------------ specs
\* The enumerations: dump and __iter__.
Next ==
    \/ DumpBegin
    \/ DumpTile
    \/ DumpEnd
    \/ IterBegin
    \/ IterNext
    \/ IterEnd

Spec == Init /\ [][Next]_vars

SpecZoomify == InitZoomify /\ [][Next]_vars

\* The geometry methods, called with the caller's level.
NextGeometry ==
    \/ CallLevelCount
    \/ CallLevelDownsample
    \/ CallLevelDimensions
    \/ CallTileGridSize
    \/ CallGetTileThumb

SpecGeometry == InitGeometry /\ [][NextGeometry]_vars

\* get_tile, called with the caller's (level, x, y).
NextGetTile == CallGetTile

SpecGetTile == InitCalls /\ [][NextGetTile]_vars

\* ----------------------------------------------------------------- claims
LongestEdge == Max(width, height)

InLoop == pc \in {"dump", "iter"}

\* The (container, compression) pairs dump is documented to accept.
SupportedPair(c, comp) ==
    \/ c = "zip" /\ comp \in {"None", "deflate", "bz2", "lzma"}
    \/ c = "tar" /\ comp \in {"None", "gzip", "bz2", "lzma"}
    \/ c = "None" /\ comp = "None"

\* C1: a dump given an unsupported container or an unsupported (container,
\* compression) pair ends in a configuration error, and when it does no
\* directory has been created, no archive opened and no tile rendered.
C1_DumpRejectsBeforeIO ==
    (pc = "ready" /\ ret.op = "dump" /\ ~SupportedPair(container, compression)
        /\ ret.outcome = "ValueError")
    => (~dirCreated /\ ~archiveOpen /\ k = 0)

\* C2: in a Zoomify enumeration the tile visited k-th (counted from 0) has
\* tile_group k // 256, so the group never decreases along the enumeration.
C2_TileGroupFollowsEnumeration ==
    (kind = "zoomify" /\ InLoop /\ k >= 1)
    => TileGroup(level, x, y) = (k - 1) \div TileGroupSize

\* C3: an enumeration visits the levels in ascending order and each level
\* row-major, x fastest: (x + 1, y) comes right after (x, y) whenever x + 1
\* is inside the grid, and within a level the row y never decreases.
C3_RowMajorOrder ==
    [][(InLoop /\ k >= 1 /\ k' = k + 1)
       => /\ level' >= level
          /\ (x + 1 < TileGridSize(level)[1])
                => (level' = level /\ x' = x + 1 /\ y' = y)
          /\ (level' = level) => (y' >= y)]_vars

\* C4: with tile_size <= max(width, height) no enumeration ends in an
\* IndexError: every tile visited is a valid level and grid position that
\* passes get_tile's check and, for Zoomify, tile_group's grid check.
C4_EnumerationNeverOutOfRange ==
    (tile_size <= LongestEdge /\ ret.op \in {"dump", "iter"})
    => /\ ret.outcome # "IndexError"
       /\ k >= 1
            => /\ 0 <= level /\ level < LevelCount
               /\ 0 <= x /\ x < TileGridSize(level)[1]
               /\ 0 <= y /\ y < TileGridSize(level)[2]
               /\ GetTileOutcome(level, x, y) # "IndexError"
               /\ kind = "zoomify" => ~TileGroupRaises(level, x, y)

\* C4's case: a Zoomify dump into a directory has written a whole pyramid of
\* several levels whose finest grid ends in partial tiles.
C4_Witness ==
    /\ kind = "zoomify" /\ tile_size = 2 /\ width = 3 /\ height = 3
    /\ pc = "ready" /\ ret.op = "dump" /\ ret.outcome = "ok"
    /\ k = 5 /\ level = 1 /\ x = 1 /\ y = 1

\* C5: get_tile raises an out-of-range error, and calls no reader method,
\* for every level below 0 or at or above level_count.
C5_GetTileRejectsInvalidLevel ==
    (ret.op = "get_tile" /\ (level < 0 \/ level >= LevelCount))
    => (ret.outcome = "IndexError" /\ ret.reader = "none")

\* C6: at a valid level get_tile raises an out-of-range error, and calls no
\* reader method, when x or y is negative or when the origin
\* (x*tile_size*scale - overlap*scale, y*tile_size*scale - overlap*scale)
\* is beyond the slide on both axes.
C6_GetTileRejectsOutsideOrigin ==
    (ret.op = "get_tile" /\ 0 <= level /\ level < LevelCount
        /\ \/ x < 0
           \/ y < 0
           \/ /\ BaselineCoord(level, x) > width * LevelDownsample(level)[2]
              /\ BaselineCoord(level, y) > height * LevelDownsample(level)[2])
    => (ret.outcome = "IndexError" /\ ret.reader = "none")

\* C7: at every valid level level_downsample returns the generator's
\* downsample factor to the power level_count - level - 1.
C7_DownsampleUsesConfiguredFactor ==
    (ret.op = "level_downsample" /\ 0 <= level /\ level < LevelCount)
    => ret.val = <<downsample ^ (LevelCount - level - 1), 1>>

\* C8: a generic generator's level_count never returns a value below 1.
C8_LevelCountAtLeastOne ==
    (kind = "generic" /\ ret.op = "level_count" /\ ret.outcome = "ok")
    => ret.val[1] >= 1

\* C9: the thumbnail's longest edge is tile_size and its other edge keeps
\* the slide's aspect ratio.
C9_ThumbLongestEdgeIsTileSize ==
    (ret.op = "get_tile_thumb")
    => /\ Max(ret.val[1], ret.val[2]) = tile_size
       /\ ret.val = <<RoundHalfEven(width * tile_size, LongestEdge),
                      RoundHalfEven(height * tile_size, LongestEdge)>>

\* C10: with overlap 0 and tile_size <= max(width, height), the grid
\* tile_grid_size returns for a valid level of a generic generator covers
\* the slide (cols*tile_size*scale >= width, rows*tile_size*scale >= height)
\* and every tile of it has its origin strictly inside the slide, so
\* get_tile rejects none of them.
C10_GridIsMinimalCover ==
    (kind = "generic" /\ overlap = 0 /\ tile_size <= LongestEdge
        /\ ret.op = "tile_grid_size" /\ ret.outcome = "ok")
    => LET cols == ret.val[1]
           rows == ret.val[2]
           scale == LevelDownsample(level)[1]
       IN  /\ LevelDownsample(level)[2] = 1
           /\ cols * tile_size * scale >= width
           /\ rows * tile_size * scale >= height
           /\ \A i \in 0..(cols - 1) : i * tile_size * scale < width
           /\ \A j \in 0..(rows - 1) : j * tile_size * scale < height
           /\ \A i \in 0..(cols - 1), j \in 0..(rows - 1) :
                GetTileOutcome(level, i, j) # "IndexError"

\* C10's case: the finest level of a 3 x 4 slide cut into tiles of 2: a
\* 2 x 2 grid whose last column is a partial tile.
C10_Witness ==
    /\ kind = "generic" /\ overlap = 0 /\ tile_size = 2
    /\ width = 3 /\ height = 4 /\ level = LevelCount - 1
    /\ ret.op = "tile_grid_size" /\ ret.outcome = "ok" /\ ret.val = <<2, 2>>

====
